---- MODULE Spec2Model ----
(***************************************************************************)
(* Write-behind appointment cache of the scheduling server: the            *)
(* appointment_cache table, CacheService (cacheAppointment, the periodic   *)
(* syncPendingAppointments / syncSingleAppointment worker, getCacheStats,  *)
(* retryFailedSyncs) and the book-appointment handler that enqueues.       *)
(*                                                                         *)
(* Every awaited database statement or HTTP call is one atomic step; the   *)
(* event loop may run any other handler between two awaits.  The cron      *)
(* timer does not wait for the previous callback, so two cycles of the     *)
(* worker may be in progress at once (axios timeout 30s = default sync     *)
(* interval 30s).  A database statement either takes effect or throws.     *)
(*                                                                         *)
(* Spec      every handler, cycles may overlap, the clock advances.        *)
(* SpecSeq   cycles one at a time, the clock advances, history recorded.   *)
(* SpecStats cycles one at a time, plus the three-query getCacheStats.     *)
(* SpecLive  the store works, IntakeQ recovers for good, fair worker.      *)
(* SpecLogged      cycles one at a time, each cycle's outcomes recorded.    *)
(* SpecOutage      cycles one at a time, the IntakeQ outage may end.        *)
(* SpecFailsFour   scenario: IntakeQ throws on a task's first 4 calls.      *)
(* SpecAlwaysFails scenario: IntakeQ throws on every call, admin resets.    *)
(* SpecCorrupt     cycles one at a time, a stored payload may be truncated. *)
(* SpecBacklog     11 pending rows, IntakeQ down, resets between cycles.    *)
(* SpecBacklogLive SpecBacklog with a worker whose cycles keep running.     *)
(* SpecEdits       bookings rescheduled or cancelled, IntakeQ's side kept.  *)
(* SpecTimer       the cron schedule of the sync job, second by second.     *)
(***************************************************************************)
EXTENDS Integers, Sequences, FiniteSets, TLC

\* ---- bounds of the model ----
MaxTasks == 2
MaxTime == 2
MaxGap == 2
MaxOverlap == 1
MaxCount == 6
MaxShuffle == 3
MaxSeconds == 200

\* ---- program constants ----
BATCH_SIZE == 10
maxRetries == 5

\* ---- value encodings ----
NULL == "null"
NULL_TIME == 0
UNDEFINED == "undefined"
Cycles == {"c1", "c2"}
DB_ERROR == "db error"
INTAKEQ_ERROR == "Failed to create appointment in IntakeQ"
SYNTAX_ERROR == "Unexpected end of JSON input"

VARIABLES
    appointments,   \* appointments table: Seq of rows, id = position
    book,           \* book-appointment requests, one per appointment row
    tasks,          \* appointment_cache table: Seq of rows, id = position
    now,            \* wall clock read by new Date() / defaultNow()
    stable,         \* TRUE once IntakeQ has recovered for good (calls succeed)
    pc,             \* per cycle: position in syncPendingAppointments
    batch,          \* per cycle: entries of pendingEntries not yet finished
    response,       \* per cycle: value returned by createAppointment
    error,          \* per cycle: error caught by syncSingleAppointment
    stats,          \* getCacheStats call: position, partial counts, result
    overlaps,       \* history: cycles started while another was in progress
    tracing,        \* whether this run records sinceAttempt
    timer,          \* node-cron schedule: interval, clock second, last start
    sinceAttempt,   \* history: batches selected since the task's last attempt
    history         \* history: calls and cycles per task, outcomes per cycle

vars == <<appointments, book, tasks, now, stable, pc, batch, response,
          error, stats, overlaps, tracing, timer, sinceAttempt, history>>

coreVars == <<appointments, book, tasks, now, stable, pc, batch,
              response, error, overlaps, tracing, timer, sinceAttempt, history>>

\* ---- pure helpers ----
Min(a, b) == IF a < b THEN a ELSE b

\* JSON.stringify / JSON.parse of the IntakeQ payload object
JSONstringify(p) == <<"{", p.ClientId, p.DateTime, "}">>

JSONparse(s) == [ClientId |-> s[2], DateTime |-> s[3]]

\* JSON.parse returns for a complete serialized object and throws a
\* SyntaxError for anything else
Parses(s) == Len(s) = 4 /\ s[1] = "{" /\ s[4] = "}"

\* body of the k-th booking request: each request asks for its own slot
requestBody(k) == [clientId |-> "client", dateTime |-> "slot-" \o ToString(k)]

\* payload object built by the book-appointment handler
bookPayload(body) == [ClientId |-> body.clientId, DateTime |-> body.dateTime]

\* new Date(s): the instant an ISO date-time string names
NewDate(s) == <<"date", s>>

\* row inserted by the book-appointment handler (status defaults to scheduled)
appointmentRow(id, body) ==
    [id |-> id, intakeqId |-> NULL, dateTime |-> NewDate(body.dateTime),
     status |-> "scheduled"]

\* property read on a JS object: undefined when the property is absent
ReadProp(obj, f) == IF f \in DOMAIN obj THEN obj[f] ELSE UNDEFINED

\* IntakeQAppointment returned by createAppointment
IntakeQAppointment(payload, aid) == [Id |-> "IQ-" \o ToString(aid), DateTime |-> payload.DateTime]

\* slip: the insert counts itself as a first attempt
cacheRowCounted(id, appointmentId, payload, t) ==
    [id |-> id, appointmentId |-> appointmentId,
     syncStatus |-> "pending", retryCount |-> 1,
     lastSyncAttempt |-> t, errorMessage |-> NULL,
     payload |-> <<"{", payload.ClientId, payload.DateTime, "}">>,
     createdAt |-> t, syncedAt |-> NULL_TIME]

\* slip: the id sequence hands out the previous value again
cacheRowReusesId(id, appointmentId, payload, t) ==
    [id |-> IF id > 1 THEN id - 1 ELSE id, appointmentId |-> appointmentId,
     syncStatus |-> "pending", retryCount |-> 0,
     lastSyncAttempt |-> NULL_TIME, errorMessage |-> NULL,
     payload |-> <<"{", payload.ClientId, payload.DateTime, "}">>,
     createdAt |-> t, syncedAt |-> NULL_TIME]

\* row inserted by cacheAppointment (column defaults included)
cacheRow(id, appointmentId, payload, t) ==
    [id |-> id, appointmentId |-> appointmentId,
     syncStatus |-> "pending", retryCount |-> 0,
     lastSyncAttempt |-> NULL_TIME, errorMessage |-> NULL,
     payload |-> JSONstringify(payload),
     createdAt |-> t, syncedAt |-> NULL_TIME]

\* the fields of a selected row that syncSingleAppointment reads
Entry(row) == [id |-> row.id, appointmentId |-> row.appointmentId,
               payload |-> row.payload, retryCount |-> row.retryCount]

\* WHERE sync_status = status
whereStatus(rows, status) == {i \in 1..Len(rows) : rows[i].syncStatus = status}

\* all orders in which a set of ids can be returned
Orderings(S) ==
    {q \in [1..Cardinality(S) -> S] : \A i, j \in 1..Cardinality(S) : q[i] = q[j] => i = j}

\* the ids of a set in increasing order
InIdOrder(S) ==
    [k \in 1..Cardinality(S) |-> CHOOSE i \in S : Cardinality({j \in S : j < i}) = k - 1]

\* slip: the LIMIT clause is missing
selectPendingNoLimit(rows) ==
    LET P == {i \in 1..Len(rows) : rows[i].syncStatus = "pending"}
    IN IF Cardinality(P) <= MaxShuffle THEN Orderings(P) ELSE {InIdOrder(P)}

\* SELECT ... WHERE sync_status = 'pending' LIMIT 10 (no ORDER BY): any rows
\* in any order while at most MaxShuffle rows are pending; of a larger table
\* only the id order is explored, one of the orders the query may return
selectPending(rows) ==
    LET P == whereStatus(rows, "pending")
        n == Min(Cardinality(P), BATCH_SIZE)
    IN IF Cardinality(P) <= MaxShuffle
       THEN UNION {Orderings(S) : S \in {T \in SUBSET P : Cardinality(T) = n}}
       ELSE {SubSeq(InIdOrder(P), 1, n)}

\* slip: the update also blanks the payload once it has been delivered
markSyncedClearsPayload(row, t) ==
    [row EXCEPT !.syncStatus = "synced", !.syncedAt = t, !.payload = <<>>]

\* slip: the update sets synced_at and forgets sync_status
markSyncedKeepsStatus(row, t) == [row EXCEPT !.syncedAt = t]

\* UPDATE appointment_cache SET sync_status='synced', synced_at=now WHERE id
markSynced(row, t) == [row EXCEPT !.syncStatus = "synced", !.syncedAt = t]

\* slip: the message is stored as it comes, without the default
recordFailureNoDefault(row, entry, msg, t) ==
    LET newRetryCount == entry.retryCount + 1
    IN IF newRetryCount >= maxRetries
       THEN [row EXCEPT !.syncStatus = "failed", !.retryCount = newRetryCount,
                        !.lastSyncAttempt = t, !.errorMessage = msg]
       ELSE [row EXCEPT !.retryCount = newRetryCount,
                        !.lastSyncAttempt = t, !.errorMessage = msg]

\* slip: the limit is reached one failure early
recordFailureOffByOne(row, entry, msg, t) ==
    LET newRetryCount == entry.retryCount + 1
        text == IF msg = "" THEN "Unknown error" ELSE msg
    IN IF newRetryCount >= maxRetries - 1
       THEN [row EXCEPT !.syncStatus = "failed", !.retryCount = newRetryCount,
                        !.lastSyncAttempt = t, !.errorMessage = text]
       ELSE [row EXCEPT !.retryCount = newRetryCount,
                        !.lastSyncAttempt = t, !.errorMessage = text]

\* the catch block's UPDATE for an entry
recordFailure(row, entry, msg, t) ==
    LET newRetryCount == entry.retryCount + 1
        text == IF msg = "" THEN "Unknown error" ELSE msg
    IN IF newRetryCount >= maxRetries
       THEN [row EXCEPT !.syncStatus = "failed", !.retryCount = newRetryCount,
                        !.lastSyncAttempt = t, !.errorMessage = text]
       ELSE [row EXCEPT !.retryCount = newRetryCount,
                        !.lastSyncAttempt = t, !.errorMessage = text]

\* slip: the reset also clears the attempt time
retryRowsClearsAttemptTime(rows) ==
    [i \in 1..Len(rows) |->
        IF rows[i].syncStatus = "failed"
        THEN [rows[i] EXCEPT !.syncStatus = "pending", !.retryCount = 0,
                             !.errorMessage = NULL, !.lastSyncAttempt = NULL_TIME]
        ELSE rows[i]]

\* slip: the reset leaves the old error message
retryRowsKeepsError(rows) ==
    [i \in 1..Len(rows) |->
        IF rows[i].syncStatus = "failed"
        THEN [rows[i] EXCEPT !.syncStatus = "pending", !.retryCount = 0]
        ELSE rows[i]]

\* slip: the reset forgets retry_count
retryRowsKeepsCount(rows) ==
    [i \in 1..Len(rows) |->
        IF rows[i].syncStatus = "failed"
        THEN [rows[i] EXCEPT !.syncStatus = "pending", !.errorMessage = NULL]
        ELSE rows[i]]

\* slip: the reset has no WHERE clause
retryRowsNoWhere(rows) ==
    [i \in 1..Len(rows) |->
        [rows[i] EXCEPT !.syncStatus = "pending", !.retryCount = 0,
                        !.errorMessage = NULL]]

\* UPDATE appointment_cache SET ... WHERE sync_status = 'failed'
retryRows(rows) ==
    [i \in 1..Len(rows) |->
        IF rows[i].syncStatus = "failed"
        THEN [rows[i] EXCEPT !.syncStatus = "pending", !.retryCount = 0,
                             !.errorMessage = NULL]
        ELSE rows[i]]

\* slip: total leaves out the failed rows
statsObjectShortTotal(pending, synced, failed) ==
    [pending |-> pending, synced |-> synced, failed |-> failed,
     total |-> pending + synced]

\* slip: the synced and failed lengths end up in each other's field
statsObjectSwapsCounts(pending, synced, failed) ==
    [pending |-> pending, synced |-> failed, failed |-> synced,
     total |-> pending + synced + failed]

\* the object getCacheStats returns from its three result sets
statsObject(pending, synced, failed) ==
    [pending |-> pending, synced |-> synced, failed |-> failed,
     total |-> pending + synced + failed]

StatsIdle == [pc |-> "idle", pending |-> 0, synced |-> 0, quiet |-> FALSE,
              result |-> statsObject(0, 0, 0)]

\* ---- the schedule of the sync job ----
\* parseInt(s, 10) of a string of decimal digits, given as its digits
RECURSIVE parseInt(_)
parseInt(digits) ==
    IF digits = <<>> THEN 0
    ELSE 10 * parseInt(SubSeq(digits, 1, Len(digits) - 1)) + digits[Len(digits)]

\* this.syncInterval: process.env.CACHE_SYNC_INTERVAL || '30', parsed
syncInterval(env) == IF env = <<>> THEN parseInt(<<3, 0>>) ELSE parseInt(env)

\* the seconds field */n of the cron expression: the seconds of the minute
\* 0..59 that are multiples of n
cronSeconds(n) == {sec \in 0..59 : sec % n = 0}

\* the schedule fires at wall-clock second t
cronMatches(n, t) == (t % 60) \in cronSeconds(n)

\* no sync job scheduled (the schedule is followed only in SpecTimer)
NoTimer == [interval |-> 0, second |-> 0, last |-> -1, gap |-> 0]

\* ---- history of a run (recorded only when history.on) ----
Saturate(n, cap) == IF n < cap THEN n + 1 ELSE cap

EmptyLog == [selected |-> {}, threw |-> {}, returned |-> {}]

\* log[c]: the ids cycle c selected and how their calls ended (recorded when
\* on); attempts[i]: createAppointment calls made for task i since it was
\* created or reset; cycles[i]: batches selected since then (recorded when
\* counting); intakeq: the appointments IntakeQ holds, each with the local
\* appointment it was created for (recorded when mirroring)
NoHistory == [on |-> FALSE, counting |-> FALSE, attempts |-> <<>>, cycles |-> <<>>,
              log |-> [c \in Cycles |-> EmptyLog],
              mirroring |-> FALSE, intakeq |-> <<>>]

Enqueued(h) ==
    IF h.counting
    THEN [h EXCEPT !.attempts = Append(@, 0), !.cycles = Append(@, 0)]
    ELSE h

CycleStarted(h, c, ids) ==
    [h EXCEPT !.cycles = IF h.counting
                         THEN [i \in DOMAIN @ |-> Saturate(@[i], MaxCount)]
                         ELSE @,
              !.log[c] = IF h.on THEN [EmptyLog EXCEPT !.selected = ids] ELSE @]

Called(h, c, id, outcome) ==
    [h EXCEPT !.attempts = IF h.counting
                           THEN [@ EXCEPT ![id] = Saturate(@, MaxCount)]
                           ELSE @,
              !.log[c][outcome] = IF h.on THEN @ \cup {id} ELSE @]

\* POST /appointments answered: IntakeQ now holds the appointment it returned
Created(h, appointmentId, appointment) ==
    IF h.mirroring
    THEN [h EXCEPT !.intakeq = Append(@, [appointmentId |-> appointmentId,
                                          Id |-> appointment.Id,
                                          DateTime |-> appointment.DateTime,
                                          Status |-> "Confirmed"])]
    ELSE h

\* PUT /appointments/{id} answered
RemoteUpdated(h, id, dateTime) ==
    [h EXCEPT !.intakeq = [k \in DOMAIN @ |->
        IF @[k].Id = id THEN [@[k] EXCEPT !.DateTime = dateTime] ELSE @[k]]]

\* DELETE /appointments/{id} answered
RemoteCancelled(h, id) ==
    [h EXCEPT !.intakeq = [k \in DOMAIN @ |->
        IF @[k].Id = id THEN [@[k] EXCEPT !.Status = "Cancelled"] ELSE @[k]]]

Restarted(h, rows) ==
    IF h.counting
    THEN [h EXCEPT
            !.attempts = [i \in DOMAIN @ |->
                            IF rows[i].syncStatus = "failed" THEN 0 ELSE @[i]],
            !.cycles = [i \in DOMAIN @ |->
                            IF rows[i].syncStatus = "failed" THEN 0 ELSE @[i]]]
    ELSE h

\* ---- initial state: empty tables, no request or cycle in progress ----
Init ==
    /\ appointments = <<>>
    /\ book = <<>>
    /\ tasks = <<>>
    /\ now = 1
    /\ stable = FALSE
    /\ pc = [c \in Cycles |-> "idle"]
    /\ batch = [c \in Cycles |-> <<>>]
    /\ response = [c \in Cycles |-> [Id |-> NULL]]
    /\ error = [c \in Cycles |-> NULL]
    /\ stats = StatsIdle
    /\ overlaps = 0
    /\ tracing = FALSE
    /\ timer = NoTimer
    /\ sinceAttempt = <<>>
    /\ history = NoHistory

\* the same start, recording for each task the batches selected since its
\* last attempt
InitTraced ==
    /\ appointments = <<>>
    /\ book = <<>>
    /\ tasks = <<>>
    /\ now = 1
    /\ stable = FALSE
    /\ pc = [c \in Cycles |-> "idle"]
    /\ batch = [c \in Cycles |-> <<>>]
    /\ response = [c \in Cycles |-> [Id |-> NULL]]
    /\ error = [c \in Cycles |-> NULL]
    /\ stats = StatsIdle
    /\ overlaps = 0
    /\ tracing = TRUE
    /\ timer = NoTimer
    /\ sinceAttempt = <<>>
    /\ history = NoHistory

\* the same start, recording what each cycle selected and how its calls ended
InitLogged ==
    /\ appointments = <<>>
    /\ book = <<>>
    /\ tasks = <<>>
    /\ now = 1
    /\ stable = FALSE
    /\ pc = [c \in Cycles |-> "idle"]
    /\ batch = [c \in Cycles |-> <<>>]
    /\ response = [c \in Cycles |-> [Id |-> NULL]]
    /\ error = [c \in Cycles |-> NULL]
    /\ stats = StatsIdle
    /\ overlaps = 0
    /\ tracing = FALSE
    /\ timer = NoTimer
    /\ sinceAttempt = <<>>
    /\ history = [NoHistory EXCEPT !.on = TRUE]

\* the same start, counting calls and cycles per task
InitCounted ==
    /\ appointments = <<>>
    /\ book = <<>>
    /\ tasks = <<>>
    /\ now = 1
    /\ stable = FALSE
    /\ pc = [c \in Cycles |-> "idle"]
    /\ batch = [c \in Cycles |-> <<>>]
    /\ response = [c \in Cycles |-> [Id |-> NULL]]
    /\ error = [c \in Cycles |-> NULL]
    /\ stats = StatsIdle
    /\ overlaps = 0
    /\ tracing = FALSE
    /\ timer = NoTimer
    /\ sinceAttempt = <<>>
    /\ history = [NoHistory EXCEPT !.counting = TRUE]

\* the same start, recording the appointments IntakeQ holds
InitMirrored ==
    /\ appointments = <<>>
    /\ book = <<>>
    /\ tasks = <<>>
    /\ now = 1
    /\ stable = FALSE
    /\ pc = [c \in Cycles |-> "idle"]
    /\ batch = [c \in Cycles |-> <<>>]
    /\ response = [c \in Cycles |-> [Id |-> NULL]]
    /\ error = [c \in Cycles |-> NULL]
    /\ stats = StatsIdle
    /\ overlaps = 0
    /\ tracing = FALSE
    /\ timer = NoTimer
    /\ sinceAttempt = <<>>
    /\ history = [NoHistory EXCEPT !.mirroring = TRUE]

\* values of CACHE_SYNC_INTERVAL (as digit strings; <<>> is unset)
Intervals == {<<>>, <<1>>, <<7>>, <<1, 5>>, <<2, 0>>, <<3, 0>>, <<4, 5>>, <<6, 0>>, <<9, 0>>}

\* the server has started the sync job with some configured interval
InitTimer ==
    /\ appointments = <<>>
    /\ book = <<>>
    /\ tasks = <<>>
    /\ now = 1
    /\ stable = FALSE
    /\ pc = [c \in Cycles |-> "idle"]
    /\ batch = [c \in Cycles |-> <<>>]
    /\ response = [c \in Cycles |-> [Id |-> NULL]]
    /\ error = [c \in Cycles |-> NULL]
    /\ stats = StatsIdle
    /\ overlaps = 0
    /\ tracing = FALSE
    /\ sinceAttempt = <<>>
    /\ history = NoHistory
    /\ \E env \in Intervals :
          timer = [NoTimer EXCEPT !.interval = syncInterval(env)]

\* one row more than a batch holds
Backlog == BATCH_SIZE + 1

\* the tables after Backlog bookings made before the first timer tick, each
\* cycle's selection and call outcomes recorded
InitBacklog ==
    /\ appointments = [i \in 1..Backlog |-> appointmentRow(i, requestBody(i))]
    /\ book = [i \in 1..Backlog |->
                  [payload |-> bookPayload(requestBody(i)), status |-> "ok"]]
    /\ tasks = [i \in 1..Backlog |-> cacheRow(i, i, bookPayload(requestBody(i)), 1)]
    /\ now = 1
    /\ stable = FALSE
    /\ pc = [c \in Cycles |-> "idle"]
    /\ batch = [c \in Cycles |-> <<>>]
    /\ response = [c \in Cycles |-> [Id |-> NULL]]
    /\ error = [c \in Cycles |-> NULL]
    /\ stats = StatsIdle
    /\ overlaps = 0
    /\ tracing = FALSE
    /\ timer = NoTimer
    /\ sinceAttempt = [i \in 1..Backlog |-> 0]
    /\ history = [NoHistory EXCEPT !.on = TRUE]

\* ---- history bookkeeping ----
Disturb(st) == IF st.pc = "idle" THEN st ELSE [st EXCEPT !.quiet = FALSE]

AllIdle == \A c \in Cycles : pc[c] = "idle"

Quiescent ==
    /\ AllIdle
    /\ \A a \in 1..Len(book) : book[a].status # "caching"

\* ---- POST /book-appointment ----
\* first await: INSERT INTO appointments ... RETURNING (a request that fails
\* validation or whose insert throws answers 400/500 and writes nothing)
bookAppointment(body) ==
    /\ Len(appointments) < MaxTasks
    /\ appointments' = Append(appointments,
            appointmentRow(Len(appointments) + 1, body))
    /\ book' = Append(book, [payload |-> bookPayload(body), status |-> "caching"])
    /\ stats' = Disturb(stats)
    /\ UNCHANGED <<tasks, now, stable, pc, batch, response, error, overlaps,
                   sinceAttempt, tracing, timer, history>>

\* slip: the enqueue only succeeds while IntakeQ is reachable
cacheAppointmentNeedsDownstream(appointmentId, ok) ==
    /\ appointmentId \in 1..Len(book)
    /\ book[appointmentId].status = "caching"
    /\ IF ok /\ stable
       THEN /\ tasks' = Append(tasks, cacheRow(Len(tasks) + 1, appointmentId,
                                        book[appointmentId].payload, now))
            /\ sinceAttempt' = Append(sinceAttempt, 0)
            /\ history' = Enqueued(history)
            /\ book' = [book EXCEPT ![appointmentId].status = "ok"]
       ELSE /\ book' = [book EXCEPT ![appointmentId].status = "err"]
            /\ UNCHANGED <<tasks, sinceAttempt, history>>
    /\ stats' = Disturb(stats)
    /\ UNCHANGED <<appointments, now, stable, pc, batch, response, error,
                   overlaps, tracing, timer>>

\* second await: cacheService.cacheAppointment(appointment.id, payload);
\* the insert either adds the row (200) or throws (500)
cacheAppointment(appointmentId, ok) ==
    /\ appointmentId \in 1..Len(book)
    /\ book[appointmentId].status = "caching"
    /\ IF ok
       THEN /\ tasks' = Append(tasks, cacheRow(Len(tasks) + 1, appointmentId,
                                        book[appointmentId].payload, now))
            /\ sinceAttempt' = Append(sinceAttempt, 0)
            /\ history' = Enqueued(history)
            /\ book' = [book EXCEPT ![appointmentId].status = "ok"]
       ELSE /\ book' = [book EXCEPT ![appointmentId].status = "err"]
            /\ UNCHANGED <<tasks, sinceAttempt, history>>
    /\ stats' = Disturb(stats)
    /\ UNCHANGED <<appointments, now, stable, pc, batch, response, error,
                   overlaps, tracing, timer>>

\* ---- the sync worker ----
\* for (const entry of pendingEntries): move to the next entry or return
NextEntry(c) ==
    /\ batch' = [batch EXCEPT ![c] = Tail(batch[c])]
    /\ pc' = [pc EXCEPT ![c] = IF Len(batch[c]) > 1 THEN "call" ELSE "idle"]
    /\ response' = [response EXCEPT ![c] = [Id |-> NULL]]
    /\ error' = [error EXCEPT ![c] = NULL]

\* the timer fires: select the batch; an empty result returns, a failing
\* select is caught and logged by the outer catch
syncPendingAppointments(c, ok) ==
    /\ pc[c] = "idle"
    /\ IF AllIdle
       THEN UNCHANGED overlaps
       ELSE overlaps < MaxOverlap /\ overlaps' = overlaps + 1
    /\ IF ok
       THEN \E q \in selectPending(tasks) :
              /\ batch' = [batch EXCEPT ![c] = [i \in 1..Len(q) |-> Entry(tasks[q[i]])]]
              /\ pc' = [pc EXCEPT ![c] = IF Len(q) = 0 THEN "idle" ELSE "call"]
              /\ history' = CycleStarted(history, c, {q[i] : i \in 1..Len(q)})
       ELSE UNCHANGED <<batch, pc, history>>
    /\ sinceAttempt' = [i \in 1..Len(tasks) |->
            IF tracing /\ pc'[c] = "call" /\ tasks[i].syncStatus = "pending"
            THEN Saturate(sinceAttempt[i], MaxGap) ELSE sinceAttempt[i]]
    /\ stats' = Disturb(stats)
    /\ UNCHANGED <<appointments, book, tasks, now, stable, response, error, tracing, timer>>

\* JSON.parse(entry.payload); await intakeqService.createAppointment(payload)
\* (a payload that does not parse throws before the call is made)
createAppointment(c) ==
    /\ pc[c] = "call"
    /\ LET entry == Head(batch[c])
           payload == JSONparse(entry.payload)
       IN /\ IF ~Parses(entry.payload)
             THEN /\ error' = [error EXCEPT ![c] = SYNTAX_ERROR]
                  /\ pc' = [pc EXCEPT ![c] = "catch"]
                  /\ UNCHANGED <<response, history>>
             ELSE \E answered \in BOOLEAN :
               /\ stable => answered
               /\ IF answered
                  THEN /\ response' = [response EXCEPT
                            ![c] = IntakeQAppointment(payload, entry.appointmentId)]
                       /\ pc' = [pc EXCEPT ![c] = "backref"]
                       /\ history' = Created(Called(history, c, entry.id, "returned"),
                                              entry.appointmentId,
                                              IntakeQAppointment(payload, entry.appointmentId))
                       /\ UNCHANGED error
                  ELSE /\ error' = [error EXCEPT ![c] = INTAKEQ_ERROR]
                       /\ pc' = [pc EXCEPT ![c] = "catch"]
                       /\ history' = Called(history, c, entry.id, "threw")
                       /\ UNCHANGED response
          /\ sinceAttempt' = IF tracing
                             THEN [sinceAttempt EXCEPT ![entry.id] = 0]
                             ELSE sinceAttempt
    /\ stats' = Disturb(stats)
    /\ UNCHANGED <<appointments, book, tasks, now, stable, batch, overlaps, tracing, timer>>

\* the call against a downstream that throws on the first n calls made for a
\* task and answers afterwards
createAppointmentFailing(c, n) ==
    /\ createAppointment(c)
    /\ pc'[c] = "backref" <=> history.attempts[Head(batch[c]).id] >= n

\* the call against a downstream that is down
createAppointmentThrows(c) ==
    /\ createAppointment(c)
    /\ pc'[c] = "catch"

\* UPDATE appointments SET intakeq_id = response.id WHERE id = appointmentId
\* (an undefined value is left out of the SET list by the query builder)
updateIntakeqId(c, ok) ==
    /\ pc[c] = "backref"
    /\ LET entry == Head(batch[c])
           value == ReadProp(response[c], "id")
       IN IF ok
          THEN /\ appointments' =
                    IF value = UNDEFINED \/ entry.appointmentId \notin 1..Len(appointments)
                    THEN appointments
                    ELSE [appointments EXCEPT ![entry.appointmentId].intakeqId = value]
               /\ pc' = [pc EXCEPT ![c] = "mark"]
               /\ UNCHANGED error
          ELSE /\ error' = [error EXCEPT ![c] = DB_ERROR]
               /\ pc' = [pc EXCEPT ![c] = "catch"]
               /\ UNCHANGED appointments
    /\ stats' = Disturb(stats)
    /\ UNCHANGED <<book, tasks, now, stable, batch, response, overlaps,
                   sinceAttempt, tracing, timer, history>>

\* UPDATE appointment_cache SET sync_status = 'synced', synced_at = now
\* WHERE id = entry.id
syncedUpdate(c, ok) ==
    /\ pc[c] = "mark"
    /\ LET entry == Head(batch[c])
       IN IF ok
          THEN /\ tasks' = [tasks EXCEPT ![entry.id] = markSynced(tasks[entry.id], now)]
               /\ NextEntry(c)
          ELSE /\ error' = [error EXCEPT ![c] = DB_ERROR]
               /\ pc' = [pc EXCEPT ![c] = "catch"]
               /\ UNCHANGED <<tasks, batch, response>>
    /\ stats' = Disturb(stats)
    /\ UNCHANGED <<appointments, book, now, stable, overlaps, sinceAttempt,
                   tracing, timer, history>>

\* slip: no outer catch, the update's error rejects the callback's promise
catchBlockRejects(c, ok) ==
    /\ pc[c] = "catch"
    /\ LET entry == Head(batch[c])
       IN IF ok
          THEN /\ tasks' = [tasks EXCEPT
                    ![entry.id] = recordFailure(tasks[entry.id], entry, error[c], now)]
               /\ NextEntry(c)
          ELSE /\ pc' = [pc EXCEPT ![c] = "rejected"]
               /\ UNCHANGED <<tasks, batch, response, error>>
    /\ stats' = Disturb(stats)
    /\ UNCHANGED <<appointments, book, now, stable, overlaps, sinceAttempt,
                   tracing, timer, history>>

\* catch (error): write the retry count; if that update throws, the error
\* leaves syncSingleAppointment and the outer catch ends the cycle
catchBlock(c, ok) ==
    /\ pc[c] = "catch"
    /\ LET entry == Head(batch[c])
       IN IF ok
          THEN /\ tasks' = [tasks EXCEPT
                    ![entry.id] = recordFailure(tasks[entry.id], entry, error[c], now)]
               /\ NextEntry(c)
          ELSE /\ batch' = [batch EXCEPT ![c] = <<>>]
               /\ pc' = [pc EXCEPT ![c] = "idle"]
               /\ response' = [response EXCEPT ![c] = [Id |-> NULL]]
               /\ error' = [error EXCEPT ![c] = NULL]
               /\ UNCHANGED tasks
    /\ stats' = Disturb(stats)
    /\ UNCHANGED <<appointments, book, now, stable, overlaps, sinceAttempt,
                   tracing, timer, history>>

\* slip: the reset waits until no cycle is in progress
retryFailedSyncsWaits(ok) ==
    /\ AllIdle
    /\ IF ok
       THEN tasks' = retryRows(tasks) /\ history' = Restarted(history, tasks)
       ELSE UNCHANGED <<tasks, history>>
    /\ stats' = Disturb(stats)
    /\ UNCHANGED <<appointments, book, now, stable, pc, batch, response,
                   error, overlaps, sinceAttempt, tracing, timer>>

\* ---- POST /api/cache/retry-failed ----
\* one UPDATE; if it throws the route answers 500 and nothing has changed
retryFailedSyncs(ok) ==
    /\ IF ok
       THEN tasks' = retryRows(tasks) /\ history' = Restarted(history, tasks)
       ELSE UNCHANGED <<tasks, history>>
    /\ stats' = Disturb(stats)
    /\ UNCHANGED <<appointments, book, now, stable, pc, batch, response,
                   error, overlaps, sinceAttempt, tracing, timer>>

\* ---- POST /reschedule-appointment ----
\* one UPDATE of the appointment row; the change is sent to IntakeQ, without
\* waiting for the answer, only when the row already carries an intakeqId
rescheduleAppointment(a, newDateTime, ok) ==
    /\ a \in 1..Len(appointments)
    /\ IF ok
       THEN /\ appointments' = [appointments EXCEPT ![a].dateTime = NewDate(newDateTime),
                                                     ![a].status = "rescheduled"]
            /\ IF appointments[a].intakeqId # NULL
               THEN \E answered \in BOOLEAN :
                       history' = IF answered
                                  THEN RemoteUpdated(history, appointments[a].intakeqId,
                                                     newDateTime)
                                  ELSE history
               ELSE UNCHANGED history
       ELSE UNCHANGED <<appointments, history>>
    /\ stats' = Disturb(stats)
    /\ UNCHANGED <<book, tasks, now, stable, pc, batch, response, error,
                   overlaps, sinceAttempt, tracing, timer>>

\* ---- POST /cancel-appointment ----
\* one UPDATE of the appointment row; the cancellation is sent to IntakeQ,
\* without waiting for the answer, only when the row carries an intakeqId
cancelAppointment(a, ok) ==
    /\ a \in 1..Len(appointments)
    /\ IF ok
       THEN /\ appointments' = [appointments EXCEPT ![a].status = "cancelled"]
            /\ IF appointments[a].intakeqId # NULL
               THEN \E answered \in BOOLEAN :
                       history' = IF answered
                                  THEN RemoteCancelled(history, appointments[a].intakeqId)
                                  ELSE history
               ELSE UNCHANGED history
       ELSE UNCHANGED <<appointments, history>>
    /\ stats' = Disturb(stats)
    /\ UNCHANGED <<book, tasks, now, stable, pc, batch, response, error,
                   overlaps, sinceAttempt, tracing, timer>>

\* ---- GET /api/cache/stats: three awaited selects, then the object ----
getCacheStats(ok) ==
    /\ IF ~ok
       THEN stats.pc \in {"q2", "q3"} /\ stats' = StatsIdle
       ELSE \/ /\ stats.pc = "idle"
               /\ stats' = [StatsIdle EXCEPT !.pc = "q2", !.quiet = Quiescent,
                       !.pending = Cardinality(whereStatus(tasks, "pending"))]
            \/ /\ stats.pc = "q2"
               /\ stats' = [stats EXCEPT !.pc = "q3",
                       !.synced = Cardinality(whereStatus(tasks, "synced"))]
            \/ /\ stats.pc = "q3"
               /\ stats' = [stats EXCEPT !.pc = "done",
                       !.result = statsObject(stats.pending, stats.synced,
                                    Cardinality(whereStatus(tasks, "failed")))]
            \/ /\ stats.pc = "done"
               /\ stats' = StatsIdle
    /\ UNCHANGED coreVars

\* ---- startSyncJob: cron.schedule(`*/${syncInterval} * * * * *`, callback) ----
\* one second of wall-clock time passes; when the expression matches the new
\* second the scheduler starts the callback, whatever the previous one does
cronTick ==
    /\ timer.interval > 0
    /\ timer.second < MaxSeconds
    /\ LET t == timer.second + 1
       IN timer' = IF cronMatches(timer.interval, t)
                   THEN [timer EXCEPT !.second = t, !.last = t,
                                      !.gap = IF timer.last < 0 THEN 0 ELSE t - timer.last]
                   ELSE [timer EXCEPT !.second = t]
    /\ UNCHANGED <<appointments, book, tasks, now, stable, pc, batch, response,
                   error, stats, overlaps, tracing, sinceAttempt, history>>

\* ---- environment ----
\* another writer of the table cuts a stored payload short
corruptPayload(i) ==
    /\ i \in 1..Len(tasks)
    /\ Parses(tasks[i].payload)
    /\ tasks' = [tasks EXCEPT ![i].payload = SubSeq(@, 1, 2)]
    /\ stats' = Disturb(stats)
    /\ UNCHANGED <<appointments, book, now, stable, pc, batch, response,
                   error, overlaps, sinceAttempt, tracing, timer, history>>

Tick ==
    /\ now < MaxTime
    /\ now' = now + 1
    /\ UNCHANGED <<appointments, book, tasks, stable, pc, batch, response,
                   error, overlaps, sinceAttempt, stats, tracing, timer, history>>

\* the transient outage of IntakeQ ends
downstreamRecovers ==
    /\ ~stable
    /\ stable' = TRUE
    /\ UNCHANGED <<appointments, book, tasks, now, pc, batch, response, error,
                   overlaps, sinceAttempt, stats, tracing, timer, history>>

\* ---- specifications ----
Next ==
    \/ bookAppointment(requestBody(Len(appointments) + 1))
    \/ \E a \in 1..MaxTasks, ok \in BOOLEAN : cacheAppointment(a, ok)
    \/ \E c \in Cycles, ok \in BOOLEAN : syncPendingAppointments(c, ok)
    \/ \E c \in Cycles : createAppointment(c)
    \/ \E c \in Cycles, ok \in BOOLEAN : updateIntakeqId(c, ok)
    \/ \E c \in Cycles, ok \in BOOLEAN : syncedUpdate(c, ok)
    \/ \E c \in Cycles, ok \in BOOLEAN : catchBlock(c, ok)
    \/ \E ok \in BOOLEAN : retryFailedSyncs(ok)
    \/ Tick

Spec == Init /\ [][Next]_vars

\* a cycle starts only when the previous one has returned
NextStats ==
    \/ bookAppointment(requestBody(Len(appointments) + 1))
    \/ \E a \in 1..MaxTasks, ok \in BOOLEAN : cacheAppointment(a, ok)
    \/ \E c \in Cycles, ok \in BOOLEAN : AllIdle /\ syncPendingAppointments(c, ok)
    \/ \E c \in Cycles : createAppointment(c)
    \/ \E c \in Cycles, ok \in BOOLEAN : updateIntakeqId(c, ok)
    \/ \E c \in Cycles, ok \in BOOLEAN : syncedUpdate(c, ok)
    \/ \E c \in Cycles, ok \in BOOLEAN : catchBlock(c, ok)
    \/ \E ok \in BOOLEAN : retryFailedSyncs(ok)
    \/ \E ok \in BOOLEAN : getCacheStats(ok)

SpecStats == Init /\ [][NextStats]_vars

\* cycles one at a time, the clock advances, the history is recorded
NextSeq ==
    \/ bookAppointment(requestBody(Len(appointments) + 1))
    \/ \E a \in 1..MaxTasks, ok \in BOOLEAN : cacheAppointment(a, ok)
    \/ \E c \in Cycles, ok \in BOOLEAN : AllIdle /\ syncPendingAppointments(c, ok)
    \/ \E c \in Cycles : createAppointment(c)
    \/ \E c \in Cycles, ok \in BOOLEAN : updateIntakeqId(c, ok)
    \/ \E c \in Cycles, ok \in BOOLEAN : syncedUpdate(c, ok)
    \/ \E c \in Cycles, ok \in BOOLEAN : catchBlock(c, ok)
    \/ \E ok \in BOOLEAN : retryFailedSyncs(ok)
    \/ Tick

SpecSeq == InitTraced /\ [][NextSeq]_vars

\* the worker with a working store
LiveWorker(c) ==
    \/ syncPendingAppointments(c, TRUE)
    \/ createAppointment(c)
    \/ updateIntakeqId(c, TRUE)
    \/ syncedUpdate(c, TRUE)
    \/ catchBlock(c, TRUE)

NextLive ==
    \/ bookAppointment(requestBody(Len(appointments) + 1))
    \/ \E a \in 1..MaxTasks : cacheAppointment(a, TRUE)
    \/ \E c \in Cycles : LiveWorker(c)
    \/ downstreamRecovers

\* the timer keeps firing, started cycles keep running, the outage ends
SpecLive ==
    /\ Init
    /\ [][NextLive]_vars
    /\ \A c \in Cycles : WF_vars(LiveWorker(c))
    /\ WF_vars(downstreamRecovers)

\* cycles one at a time, each cycle's selection and call outcomes recorded
NextLogged ==
    \/ bookAppointment(requestBody(Len(appointments) + 1))
    \/ \E a \in 1..MaxTasks, ok \in BOOLEAN : cacheAppointment(a, ok)
    \/ \E c \in Cycles, ok \in BOOLEAN : AllIdle /\ syncPendingAppointments(c, ok)
    \/ \E c \in Cycles : createAppointment(c)
    \/ \E c \in Cycles, ok \in BOOLEAN : updateIntakeqId(c, ok)
    \/ \E c \in Cycles, ok \in BOOLEAN : syncedUpdate(c, ok)
    \/ \E c \in Cycles, ok \in BOOLEAN : catchBlock(c, ok)
    \/ \E ok \in BOOLEAN : retryFailedSyncs(ok)

SpecLogged == InitLogged /\ [][NextLogged]_vars

\* scenario: the store works, cycles run one at a time, IntakeQ throws on the
\* first maxRetries - 1 calls for a task and answers the next one
NextFailsFour ==
    \/ bookAppointment(requestBody(Len(appointments) + 1))
    \/ \E a \in 1..MaxTasks : cacheAppointment(a, TRUE)
    \/ \E c \in Cycles : AllIdle /\ syncPendingAppointments(c, TRUE)
    \/ \E c \in Cycles : createAppointmentFailing(c, maxRetries - 1)
    \/ \E c \in Cycles : updateIntakeqId(c, TRUE)
    \/ \E c \in Cycles : syncedUpdate(c, TRUE)
    \/ \E c \in Cycles : catchBlock(c, TRUE)
    \/ Tick

SpecFailsFour == InitCounted /\ [][NextFailsFour]_vars

\* scenario: the store works, cycles run one at a time, IntakeQ throws on
\* every call, the admin may reset failed rows
NextAlwaysFails ==
    \/ bookAppointment(requestBody(Len(appointments) + 1))
    \/ \E a \in 1..MaxTasks : cacheAppointment(a, TRUE)
    \/ \E c \in Cycles : AllIdle /\ syncPendingAppointments(c, TRUE)
    \/ \E c \in Cycles : createAppointmentFailing(c, MaxCount + 1)
    \/ \E c \in Cycles : catchBlock(c, TRUE)
    \/ retryFailedSyncs(TRUE)
    \/ Tick

SpecAlwaysFails == InitCounted /\ [][NextAlwaysFails]_vars

\* cycles one at a time; the IntakeQ outage may end at any moment
NextOutage ==
    \/ bookAppointment(requestBody(Len(appointments) + 1))
    \/ \E a \in 1..MaxTasks, ok \in BOOLEAN : cacheAppointment(a, ok)
    \/ \E c \in Cycles, ok \in BOOLEAN : AllIdle /\ syncPendingAppointments(c, ok)
    \/ \E c \in Cycles : createAppointment(c)
    \/ \E c \in Cycles, ok \in BOOLEAN : updateIntakeqId(c, ok)
    \/ \E c \in Cycles, ok \in BOOLEAN : syncedUpdate(c, ok)
    \/ \E c \in Cycles, ok \in BOOLEAN : catchBlock(c, ok)
    \/ \E ok \in BOOLEAN : retryFailedSyncs(ok)
    \/ downstreamRecovers

SpecOutage == Init /\ [][NextOutage]_vars

\* cycles one at a time; stored payloads may be damaged from outside
NextCorrupt ==
    \/ bookAppointment(requestBody(Len(appointments) + 1))
    \/ \E a \in 1..MaxTasks, ok \in BOOLEAN : cacheAppointment(a, ok)
    \/ \E i \in 1..MaxTasks : corruptPayload(i)
    \/ \E c \in Cycles, ok \in BOOLEAN : AllIdle /\ syncPendingAppointments(c, ok)
    \/ \E c \in Cycles : createAppointment(c)
    \/ \E c \in Cycles, ok \in BOOLEAN : updateIntakeqId(c, ok)
    \/ \E c \in Cycles, ok \in BOOLEAN : syncedUpdate(c, ok)
    \/ \E c \in Cycles, ok \in BOOLEAN : catchBlock(c, ok)

SpecCorrupt == Init /\ [][NextCorrupt]_vars

\* the worker against a full table: the store works, IntakeQ is down, cycles
\* run one at a time, the admin resets failed rows between cycles
BacklogWorker(c) ==
    \/ AllIdle /\ syncPendingAppointments(c, TRUE)
    \/ createAppointmentThrows(c)
    \/ catchBlock(c, TRUE)

NextBacklog ==
    \/ \E c \in Cycles : BacklogWorker(c)
    \/ AllIdle /\ retryFailedSyncs(TRUE)

SpecBacklog == InitBacklog /\ [][NextBacklog]_vars

\* the timer keeps firing and started cycles keep running
SpecBacklogLive ==
    /\ InitBacklog
    /\ [][NextBacklog]_vars
    /\ \A c \in Cycles : WF_vars(BacklogWorker(c))

\* the date-time a reschedule request asks for
MovedSlot == "slot-moved"

\* bookings may be rescheduled or cancelled at any moment; the store works
\* for the worker, cycles run one at a time, IntakeQ's appointments recorded
NextEdits ==
    \/ bookAppointment(requestBody(Len(appointments) + 1))
    \/ \E a \in 1..MaxTasks : cacheAppointment(a, TRUE)
    \/ \E a \in 1..MaxTasks, ok \in BOOLEAN : rescheduleAppointment(a, MovedSlot, ok)
    \/ \E a \in 1..MaxTasks, ok \in BOOLEAN : cancelAppointment(a, ok)
    \/ \E c \in Cycles : AllIdle /\ syncPendingAppointments(c, TRUE)
    \/ \E c \in Cycles : createAppointment(c)
    \/ \E c \in Cycles : updateIntakeqId(c, TRUE)
    \/ \E c \in Cycles : syncedUpdate(c, TRUE)
    \/ \E c \in Cycles : catchBlock(c, TRUE)

SpecEdits == InitMirrored /\ [][NextEdits]_vars

\* the schedule alone, second by second
NextTimer == cronTick

SpecTimer == InitTimer /\ [][NextTimer]_vars

TypeOK ==
    /\ Len(tasks) <= MaxTasks
    /\ \A i \in 1..Len(tasks) :
         /\ tasks[i].id = i
         /\ tasks[i].syncStatus \in {"pending", "synced", "failed"}
         /\ tasks[i].retryCount \in 0..maxRetries
    /\ now \in 1..MaxTime

(***************************************************************************)
(* Properties                                                              *)
(***************************************************************************)
Status(i) == tasks[i].syncStatus

\* the entry a cycle is working on
Current(c) == Head(batch[c])

\* the createAppointment call of the attempt in progress has returned a value
DownstreamSucceeded(c) ==
    \/ pc[c] \in {"backref", "mark"}
    \/ pc[c] = "catch" /\ error[c] # INTAKEQ_ERROR

\* this step ends the attempt a cycle is making on its current entry
AttemptEnds(c) == pc[c] \in {"mark", "catch"} /\ batch'[c] # batch[c]

\* this step is the admin reset taking effect on some row
ResetStep == \E i \in 1..Len(tasks) : Status(i) = "failed" /\ tasks'[i].syncStatus = "pending"

\* C1: a successful cacheAppointment call adds exactly one row, pending with
\* retryCount 0 and null errorMessage, lastSyncAttempt and syncedAt, carrying
\* the call's appointmentId and payload, and changes no existing row.
C1_EnqueueAddsOnePendingRow ==
    [][\A a \in 1..Len(book) :
          (book[a].status = "caching" /\ book'[a].status = "ok") =>
             /\ Len(tasks') = Len(tasks) + 1
             /\ \A i \in 1..Len(tasks) : tasks'[i] = tasks[i]
             /\ LET row == tasks'[Len(tasks')]
                IN /\ row.syncStatus = "pending"
                   /\ row.retryCount = 0
                   /\ row.errorMessage = NULL
                   /\ row.lastSyncAttempt = NULL_TIME
                   /\ row.syncedAt = NULL_TIME
                   /\ row.appointmentId = a
                   /\ JSONparse(row.payload) = book[a].payload
                   /\ row.id \notin {tasks[i].id : i \in 1..Len(tasks)}]_vars

\* a second enqueue has succeeded after the first row had already been worked on
C1_Witness ==
    /\ Len(tasks) = 2
    /\ book[tasks[2].appointmentId].status = "ok"
    /\ tasks[2].retryCount = 0 /\ tasks[2].lastSyncAttempt = NULL_TIME
    /\ tasks[1].retryCount > 0

\* C2: an attempt leaves its task synced if and only if the createAppointment
\* call of that attempt succeeded: a row becomes synced only in the step that
\* ends an attempt whose call succeeded, and every attempt whose call
\* succeeded ends with the row synced.
C2_SyncedIffDownstreamSuccess ==
    [][/\ \A i \in 1..Len(tasks) :
             (Status(i) # "synced" /\ tasks'[i].syncStatus = "synced") =>
                \E c \in Cycles : /\ pc[c] # "idle" /\ Current(c).id = i
                                  /\ AttemptEnds(c) /\ DownstreamSucceeded(c)
       /\ \A c \in Cycles :
             (AttemptEnds(c) /\ DownstreamSucceeded(c)) =>
                tasks'[Current(c).id].syncStatus = "synced"]_vars

\* C3: syncedAt is non-null exactly for synced rows, and once written it is
\* never written again.
C3_SyncedAtIffSynced ==
    /\ [](\A i \in 1..Len(tasks) : (tasks[i].syncedAt # NULL_TIME) <=> (Status(i) = "synced"))
    /\ [][\A i \in 1..Len(tasks) :
             tasks[i].syncedAt # NULL_TIME => tasks'[i].syncedAt = tasks[i].syncedAt]_vars

\* C4: a row becomes failed only by the write that takes retryCount from 4 to
\* 5 (its 5th failure since creation or reset), and every failed row has
\* retryCount 5 and a non-null errorMessage.
C4_FailedOnlyAtFifthFailure ==
    /\ [](\A i \in 1..Len(tasks) :
            Status(i) = "failed" =>
               tasks[i].retryCount = maxRetries /\ tasks[i].errorMessage # NULL)
    /\ [][\A i \in 1..Len(tasks) :
             (Status(i) # "failed" /\ tasks'[i].syncStatus = "failed") =>
                /\ tasks[i].retryCount = maxRetries - 1
                /\ tasks'[i].retryCount = maxRetries]_vars

\* C5: a row's state changes only pending->synced or pending->failed in a
\* worker step, or failed->pending in the admin reset; synced never changes.
C5_OnlyLegalTransitions ==
    [][\A i \in 1..Len(tasks) :
          \/ tasks'[i].syncStatus = Status(i)
          \/ /\ Status(i) = "pending"
             /\ tasks'[i].syncStatus \in {"synced", "failed"}
             /\ pc' # pc
          \/ /\ Status(i) = "failed"
             /\ tasks'[i].syncStatus = "pending"
             /\ pc' = pc]_vars

Backoff(n) == 2 ^ (n - 1)

\* C7: a task with n recorded failures is attempted again only after a gap
\* (in batches selected since its last attempt) that doubles with n.
C7_ExponentialBackoff ==
    \A c \in Cycles :
        (pc[c] = "call" /\ Current(c).retryCount >= 1) =>
            sinceAttempt[Current(c).id] >= Min(Backoff(Current(c).retryCount), MaxGap)

\* what the reset leaves: no failed row, failed rows pending with zero count
\* and null message
ResetOutcome(before, after) ==
    /\ Len(after) = Len(before)
    /\ \A i \in 1..Len(before) :
          /\ before[i].syncStatus = "failed" =>
                /\ after[i].syncStatus = "pending"
                /\ after[i].retryCount = 0
                /\ after[i].errorMessage = NULL
          /\ after[i].syncStatus # "failed"

\* C8: retryFailedSyncs moves every failed row to pending with retryCount 0
\* and errorMessage null; afterwards no row is failed.
C8_ResetClearsEveryFailedRow ==
    /\ [](ResetOutcome(tasks, retryRows(tasks)))
    /\ [][ResetStep => ResetOutcome(tasks, tasks')]_vars

\* both rows had failed and have been reset together
C8_Witness ==
    /\ Len(tasks) = 2
    /\ \A i \in 1..2 : /\ Status(i) = "pending"
                       /\ tasks[i].retryCount = 0
                       /\ tasks[i].lastSyncAttempt # NULL_TIME

PendingCount(rows) == Cardinality(whereStatus(rows, "pending"))

\* C9: a second reset right after the first changes nothing (same rows, same
\* pending count), and a reset with no failed row changes no row.
C9_ResetIdempotent ==
    /\ [](/\ retryRows(retryRows(tasks)) = retryRows(tasks)
          /\ PendingCount(retryRows(retryRows(tasks))) = PendingCount(retryRows(tasks))
          /\ whereStatus(tasks, "failed") = {} => retryRows(tasks) = tasks)
    /\ [][ResetStep => retryRows(tasks') = tasks']_vars

\* a reset has run while another row was synced and stayed so
C9_Witness ==
    /\ Len(tasks) = 2
    /\ \E i, j \in 1..2 :
          /\ Status(i) = "pending" /\ tasks[i].retryCount = 0
          /\ tasks[i].lastSyncAttempt # NULL_TIME
          /\ Status(j) = "synced"

\* C10: a getCacheStats call during which nothing else runs returns the exact
\* number of rows in each state, and total is their sum and the row count.
C10_QuiescentStatsExact ==
    (stats.pc = "done" /\ stats.quiet) =>
        /\ stats.result.pending = Cardinality(whereStatus(tasks, "pending"))
        /\ stats.result.synced = Cardinality(whereStatus(tasks, "synced"))
        /\ stats.result.failed = Cardinality(whereStatus(tasks, "failed"))
        /\ stats.result.total = stats.result.pending + stats.result.synced
                                + stats.result.failed
        /\ stats.result.total = Len(tasks)

\* a quiescent call has returned with a failed and a synced row in the table
C10_Witness ==
    /\ stats.pc = "done" /\ stats.quiet
    /\ stats.result.failed = 1 /\ stats.result.synced = 1

\* this step is the return of cycle c's syncPendingAppointments
CycleEnds(c) == pc[c] # "idle" /\ pc'[c] = "idle"

\* C11: when a cycle has selected tasks A and B, A's createAppointment call
\* threw and B's returned, B is synced when the cycle returns, whichever of
\* the two came first in the batch.
C11_BatchIsolation ==
    [][\A c \in Cycles :
          CycleEnds(c) =>
             \A A, B \in history.log[c].selected :
                (A # B /\ A \in history.log[c].threw /\ B \in history.log[c].returned)
                   => tasks'[B].syncStatus = "synced"]_vars

\* C12: with a downstream that fails the first 4 calls for a task and then
\* succeeds, after each of its first 4 cycles the task is pending with
\* retryCount equal to the number of cycles, and after its 5th cycle it is
\* synced with retryCount 4.
C12_FourFailuresThenSynced ==
    AllIdle =>
       \A i \in 1..Len(tasks) :
          /\ history.cycles[i] < maxRetries =>
                Status(i) = "pending" /\ tasks[i].retryCount = history.cycles[i]
          /\ history.cycles[i] >= maxRetries =>
                Status(i) = "synced" /\ tasks[i].retryCount = maxRetries - 1

\* the 5th cycle of a task has just returned and left it synced after 4 failures
C12_Witness ==
    /\ AllIdle
    /\ \E i \in 1..Len(tasks) :
          /\ history.cycles[i] = maxRetries /\ history.attempts[i] = maxRetries
          /\ Status(i) = "synced" /\ tasks[i].retryCount = maxRetries - 1

\* C13: with a downstream that always fails, a task is pending with
\* retryCount n after n < 5 cycles and failed with retryCount 5 and an error
\* message after 5; retryFailedSyncs puts it back to pending with retryCount 0
\* and no message, and it then needs 5 more failed attempts, one per cycle,
\* to become failed again (cycles and attempts are counted since the reset).
C13_AlwaysFailingThenReset ==
    AllIdle =>
       \A i \in 1..Len(tasks) :
          /\ history.cycles[i] < maxRetries =>
                /\ Status(i) = "pending"
                /\ tasks[i].retryCount = history.cycles[i]
                /\ history.attempts[i] = history.cycles[i]
                /\ (history.cycles[i] = 0) <=> (tasks[i].errorMessage = NULL)
          /\ history.cycles[i] >= maxRetries =>
                /\ Status(i) = "failed"
                /\ tasks[i].retryCount = maxRetries
                /\ history.attempts[i] = maxRetries
                /\ tasks[i].errorMessage = INTAKEQ_ERROR

\* one task has failed 5 times and been reset to a fresh budget, and the other
\* has since used up its own 5 attempts
C13_Witness ==
    /\ AllIdle /\ Len(tasks) = 2
    /\ \E i, j \in 1..2 :
          /\ Status(i) = "failed" /\ history.cycles[i] >= maxRetries
          /\ Status(j) = "pending" /\ tasks[j].retryCount = 0
          /\ tasks[j].lastSyncAttempt # NULL_TIME /\ history.cycles[j] = 0

\* C14: however the cacheAppointment calls interleave with each other and with
\* the worker, every call whose insert succeeded has exactly one row and there
\* is no other row, all ids are distinct, a new row is pending with retryCount
\* 0 and an id greater than every id handed out before, and no row's id ever
\* changes or disappears.
C14_ConcurrentEnqueues ==
    /\ [](/\ Len(tasks) = Cardinality({a \in 1..Len(book) : book[a].status = "ok"})
          /\ \A a \in 1..Len(book) :
                Cardinality({i \in 1..Len(tasks) : tasks[i].appointmentId = a})
                   = IF book[a].status = "ok" THEN 1 ELSE 0
          /\ \A i, j \in 1..Len(tasks) : tasks[i].id = tasks[j].id => i = j)
    /\ [][/\ Len(tasks') >= Len(tasks)
          /\ \A i \in 1..Len(tasks) : tasks'[i].id = tasks[i].id
          /\ \A n \in (Len(tasks) + 1)..Len(tasks') :
                /\ \A i \in 1..Len(tasks) : tasks'[n].id > tasks[i].id
                /\ tasks'[n].syncStatus = "pending"
                /\ tasks'[n].retryCount = 0]_vars

\* two requests were in flight together and the later one's insert landed
\* first, while a cycle that had selected only the first row was still running
C14_Witness ==
    /\ Len(tasks) = 2
    /\ tasks[1].appointmentId = 2 /\ tasks[2].appointmentId = 1
    /\ \E c \in Cycles : /\ pc[c] # "idle" /\ Len(batch[c]) = 1
                         /\ Head(batch[c]).id = 1

\* C15: cacheAppointment makes no downstream call and its outcome does not
\* depend on IntakeQ: whether or not the outage is over, a waiting enqueue can
\* succeed and can fail (on the store alone), the step touches nothing of the
\* worker or of IntakeQ, and the row it leaves is determined by the table, the
\* request and the clock only.
C15_EnqueueIgnoresDownstream ==
    /\ [](\A a \in 1..Len(book) :
             book[a].status = "caching" =>
                /\ ENABLED (cacheAppointment(a, TRUE) /\ book'[a].status = "ok")
                /\ ENABLED (cacheAppointment(a, FALSE) /\ book'[a].status = "err"))
    /\ [][\A a \in 1..Len(book) :
             (book[a].status = "caching" /\ book'[a].status # "caching") =>
                /\ <<stable, pc, batch, response, error, appointments>>'
                      = <<stable, pc, batch, response, error, appointments>>
                /\ \/ /\ book'[a].status = "ok"
                      /\ tasks' = Append(tasks, cacheRow(Len(tasks) + 1, a,
                                                  book[a].payload, now))
                   \/ /\ book'[a].status = "err"
                      /\ tasks' = tasks]_vars

\* the first task was enqueued and attempted during the outage, the second
\* request's enqueue has succeeded as well and the outage is over
C15_Witness ==
    /\ stable
    /\ Len(tasks) = 2 /\ book[2].status = "ok"
    /\ tasks[1].errorMessage = INTAKEQ_ERROR
    /\ tasks[2].retryCount = 0 /\ Status(2) = "pending"

\* this step is the catch block's update of cycle c taking effect while other
\* entries of the batch remain (the loop moves on to the next entry)
FailureRecorded(c) == pc[c] = "catch" /\ pc'[c] = "call"

\* C16: while a row stays pending its retryCount never decreases, every
\* recorded failed attempt raises it by exactly 1, and it lies in 0..5.
C16_CountsEveryAttempt ==
    /\ [](\A i \in 1..Len(tasks) : tasks[i].retryCount \in 0..maxRetries)
    /\ [][/\ \A i \in 1..Len(tasks) :
                (Status(i) = "pending" /\ tasks'[i].syncStatus = "pending") =>
                   tasks'[i].retryCount >= tasks[i].retryCount
          /\ \A c \in Cycles :
                (/\ FailureRecorded(c)
                 /\ Status(Current(c).id) = "pending"
                 /\ tasks'[Current(c).id].syncStatus = "pending") =>
                   tasks'[Current(c).id].retryCount
                      = tasks[Current(c).id].retryCount + 1]_vars

\* the request for appointment a has been answered
Answered(a) == a <= Len(book) /\ book[a].status # "caching"

\* C17: once a book-appointment request has been answered, its appointment
\* row has exactly one appointment_cache row, pending with retryCount 0 when
\* created, also when the cache insert failed; success is reported only when
\* both rows exist.
C17_OneTaskPerAppointment ==
    \A a \in 1..Len(appointments) :
        Answered(a) =>
           /\ Cardinality({i \in 1..Len(tasks) : tasks[i].appointmentId = a}) = 1
           /\ book[a].status = "ok" =>
                \E i \in 1..Len(tasks) : tasks[i].appointmentId = a

\* C18: when the attempt on one entry ends, however it ends, while other
\* selected entries remain, the cycle goes on to attempt the next entry.
C18_FailureDoesNotAbortBatch ==
    [][\A c \in Cycles :
          (pc[c] # "idle" /\ Len(batch[c]) > 1 /\ batch'[c] # batch[c]) =>
             /\ batch'[c] = Tail(batch[c])
             /\ pc'[c] = "call"]_vars

\* the createAppointment call of the attempt in progress returned an appointment
CallReturned(c) == pc[c] # "idle" /\ ReadProp(response[c], "Id") # NULL

\* C19: a failing back-reference update does not undo the sync: the attempt
\* goes on to mark the task synced, and every attempt whose downstream call
\* returned ends with the task synced and its retryCount unchanged (so the
\* payload is not selected and submitted again).
C19_BackReferenceBestEffort ==
    [][\A c \in Cycles :
          /\ pc[c] = "backref" => pc'[c] \in {"backref", "mark"}
          /\ (CallReturned(c) /\ AttemptEnds(c)) =>
                /\ tasks'[Current(c).id].syncStatus = "synced"
                /\ tasks'[Current(c).id].retryCount = tasks[Current(c).id].retryCount]_vars

\* C20: a worker step changes a row only if the row is still pending and
\* still as the worker read it (same retryCount); rows that were meanwhile
\* synced, failed, reset or counted by another cycle are left alone.
C20_ConditionalWorkerWrites ==
    [][\A c \in Cycles :
          (pc[c] \in {"mark", "catch"} /\ pc'[c] # pc[c]
              /\ tasks'[Current(c).id] # tasks[Current(c).id]) =>
             /\ Status(Current(c).id) = "pending"
             /\ tasks[Current(c).id].retryCount = Current(c).retryCount]_vars

\* the worker stays where it is in this step
WorkerWaits == pc' = pc /\ batch' = batch

\* C21: in every state of the worker, also while a cycle is suspended in its
\* createAppointment call, a waiting cacheAppointment can complete,
\* retryFailedSyncs can run and take effect, and getCacheStats can take its
\* next step (so a call can start and run to its result), all without any
\* step of the worker.
C21_HandlersNeverWaitForWorker ==
    /\ \A a \in 1..Len(book) :
          book[a].status = "caching" =>
             ENABLED (cacheAppointment(a, TRUE) /\ WorkerWaits /\ Len(tasks') = Len(tasks) + 1)
    /\ ENABLED (retryFailedSyncs(TRUE) /\ WorkerWaits /\ tasks' = retryRows(tasks))
    /\ ENABLED (getCacheStats(TRUE) /\ WorkerWaits)

\* while a cycle that selected only task 2 is suspended in its call, task 1
\* has been reset and a stats call that started after the reset has returned
C21_Witness ==
    /\ Len(tasks) = 2
    /\ \E c \in Cycles : /\ pc[c] = "call" /\ Len(batch[c]) = 1
                         /\ Head(batch[c]).id = 2
    /\ Status(1) = "pending" /\ tasks[1].retryCount = 0
    /\ tasks[1].lastSyncAttempt # NULL_TIME
    /\ stats.pc = "done" /\ stats.result.pending = 2

\* C22: no step changes the payload, appointmentId, id or createdAt of an
\* existing row, and the payload a cycle parses and sends for an entry is the
\* one the booking request stored for that row.
C22_ImmutableTaskIdentity ==
    /\ [](/\ \A i \in 1..Len(tasks) :
                tasks[i].payload = JSONstringify(book[tasks[i].appointmentId].payload)
          /\ \A c \in Cycles :
                pc[c] # "idle" =>
                   /\ Current(c).payload = tasks[Current(c).id].payload
                   /\ JSONparse(Current(c).payload)
                         = book[Current(c).appointmentId].payload)
    /\ [][\A i \in 1..Len(tasks) :
             /\ tasks'[i].payload = tasks[i].payload
             /\ tasks'[i].appointmentId = tasks[i].appointmentId
             /\ tasks'[i].id = tasks[i].id
             /\ tasks'[i].createdAt = tasks[i].createdAt]_vars

\* the first row has failed, then been delivered, the second row was enqueued
\* later and is being sent now
C22_Witness ==
    /\ Len(tasks) = 2
    /\ Status(1) = "synced" /\ tasks[1].retryCount > 0
    /\ tasks[2].createdAt > tasks[1].createdAt
    /\ \E c \in Cycles : pc[c] = "call" /\ Current(c).id = 2

\* the columns the reset may not touch
KeptByReset(row) == [id |-> row.id, appointmentId |-> row.appointmentId,
                     payload |-> row.payload, createdAt |-> row.createdAt,
                     lastSyncAttempt |-> row.lastSyncAttempt,
                     syncedAt |-> row.syncedAt]

\* what the reset may change: nothing on pending and synced rows, only
\* syncStatus, retryCount and errorMessage on failed rows
ResetFrame(before, after) ==
    /\ Len(after) = Len(before)
    /\ \A i \in 1..Len(before) :
          /\ before[i].syncStatus # "failed" => after[i] = before[i]
          /\ KeptByReset(after[i]) = KeptByReset(before[i])

\* C30: retryFailedSyncs leaves every pending or synced row exactly as it
\* was, and on a failed row changes syncStatus, retryCount and errorMessage
\* only.
C30_ResetFrame ==
    /\ [](ResetFrame(tasks, retryRows(tasks)))
    /\ [][ResetStep => ResetFrame(tasks, tasks')]_vars

\* a failed row has been reset and kept its attempt time, next to a pending
\* row that has failures recorded and kept them
C30_Witness ==
    /\ Len(tasks) = 2
    /\ \E i, j \in 1..2 :
          /\ Status(i) = "pending" /\ tasks[i].retryCount = 0
          /\ tasks[i].errorMessage = NULL /\ tasks[i].lastSyncAttempt # NULL_TIME
          /\ Status(j) = "pending" /\ tasks[j].retryCount > 0
          /\ tasks[j].errorMessage # NULL

\* this step is the write of the outcome of cycle c's attempt taking effect
OutcomeWritten(c) ==
    AttemptEnds(c) /\ tasks'[Current(c).id] # tasks[Current(c).id]

\* C28: lastSyncAttempt is null only on rows never attempted (a synced row
\* and a row with failures counted have been attempted), and every write of
\* an attempt's outcome, success or failure, sets it to the time of that
\* attempt.
C28_LastAttemptTime ==
    /\ [](\A i \in 1..Len(tasks) :
             tasks[i].lastSyncAttempt = NULL_TIME =>
                Status(i) = "pending" /\ tasks[i].retryCount = 0)
    /\ [][\A c \in Cycles :
             OutcomeWritten(c) => tasks'[Current(c).id].lastSyncAttempt = now]_vars

\* C29: with cycles one at a time, errorMessage is null exactly when
\* retryCount is 0, and every failure the catch block records stores the
\* caught error's message, or "Unknown error" when that message is empty,
\* never null or empty.
C29_ErrorMessageIffCounted ==
    /\ [](\A i \in 1..Len(tasks) :
             /\ (tasks[i].errorMessage = NULL) <=> (tasks[i].retryCount = 0)
             /\ tasks[i].errorMessage # ""
             /\ recordFailure(tasks[i], Entry(tasks[i]), "", now).errorMessage
                   \notin {NULL, ""})
    /\ [][\A c \in Cycles :
             (pc[c] = "catch" /\ OutcomeWritten(c)) =>
                /\ tasks'[Current(c).id].errorMessage = error[c]
                /\ error[c] \notin {NULL, ""}]_vars

\* one row carries the store's error from a failed attempt, the other has
\* failed five times and been reset to a null message
C29_Witness ==
    /\ Len(tasks) = 2
    /\ \E i, j \in 1..2 :
          /\ tasks[i].errorMessage = DB_ERROR /\ tasks[i].retryCount > 0
          /\ tasks[j].errorMessage = NULL /\ tasks[j].retryCount = 0
          /\ tasks[j].lastSyncAttempt # NULL_TIME

\* statements a cycle still has to get through: four per remaining entry,
\* less those already passed for the current one
Passed(p) == CASE p = "backref" -> 1 [] p = "mark" -> 2 [] p = "catch" -> 3
               [] OTHER -> 0

Remaining(p, b) == 4 * Len(b) - Passed(p)

\* C26: whatever fails inside a cycle, the callback returns: a cycle is
\* always at one of its statements with a next step to take, every step brings
\* it closer to its return, a failing step leaves it running or returned, and
\* whenever no cycle is running the timer can start the next one.
C26_CycleAlwaysReturns ==
    /\ [](\A c \in Cycles :
             /\ pc[c] \in {"idle", "call", "backref", "mark", "catch"}
             /\ pc[c] = "idle" => batch[c] = <<>>
             /\ pc[c] # "idle" => ENABLED LiveWorker(c)
             /\ AllIdle => /\ ENABLED syncPendingAppointments(c, TRUE)
                           /\ ENABLED syncPendingAppointments(c, FALSE))
    /\ [][\A c \in Cycles :
             (pc[c] # "idle" /\ <<pc[c], batch[c]>>' # <<pc[c], batch[c]>>) =>
                Remaining(pc'[c], batch'[c]) < Remaining(pc[c], batch[c])]_vars

\* a cycle whose catch-block update threw has returned without recording the
\* failure, and the next cycle is running
C26_Witness ==
    \E c, d \in Cycles :
        /\ pc[c] = "idle" /\ pc[d] # "idle"
        /\ \E i \in history.log[c].threw :
              tasks[i].retryCount = 0 /\ tasks[i].lastSyncAttempt = NULL_TIME

\* C27: an entry whose payload does not parse gets no downstream call; its
\* attempt is recorded as a failure (retryCount + 1, the parser's message,
\* failed at the 5th), and the cycle goes on to the other entries of the
\* batch.
C27_MalformedPayloadIsAFailedAttempt ==
    [][\A c \in Cycles :
          /\ (pc[c] = "call" /\ ~Parses(Current(c).payload) /\ pc'[c] # "call") =>
                pc'[c] = "catch" /\ response' = response
          /\ (pc[c] = "catch" /\ error[c] = SYNTAX_ERROR /\ AttemptEnds(c)) =>
                /\ OutcomeWritten(c) =>
                      /\ tasks'[Current(c).id].retryCount = Current(c).retryCount + 1
                      /\ tasks'[Current(c).id].errorMessage = SYNTAX_ERROR
                      /\ (tasks'[Current(c).id].retryCount >= maxRetries)
                            <=> (tasks'[Current(c).id].syncStatus = "failed")
                /\ Len(batch[c]) > 1 => pc'[c] = "call"]_vars

\* this step is cycle c selecting a non-empty batch
BatchSelected(c) == pc[c] = "idle" /\ pc'[c] = "call"

\* this step is cycle c making a createAppointment call for its current entry
CallMade(c) ==
    /\ pc[c] = "call" /\ pc'[c] # "call"
    /\ Parses(Current(c).payload)

\* the ids cycle c has made a call for since it selected its batch
CalledIn(c) == history.log[c].threw \cup history.log[c].returned

\* C23: a cycle selects at most BATCH_SIZE tasks, all pending at the moment
\* of selection and no task twice; it makes calls only for selected tasks and
\* never a second call for a task it already called; a cycle that finds no
\* pending task makes no call and leaves every table as it was.
C23_BoundedBatch ==
    /\ [](\A c \in Cycles :
            /\ Cardinality(history.log[c].selected) <= BATCH_SIZE
            /\ CalledIn(c) \subseteq history.log[c].selected
            /\ Cardinality(CalledIn(c)) <= BATCH_SIZE)
    /\ [][\A c \in Cycles :
            /\ BatchSelected(c) =>
                  /\ history'.log[c].selected \subseteq whereStatus(tasks, "pending")
                  /\ Len(batch'[c]) = Cardinality(history'.log[c].selected)
                  /\ {batch'[c][k].id : k \in 1..Len(batch'[c])} = history'.log[c].selected
            /\ CallMade(c) =>
                  /\ Current(c).id \in history.log[c].selected
                  /\ Current(c).id \notin CalledIn(c)
                  /\ CalledIn(c)' = CalledIn(c) \cup {Current(c).id}
            /\ (whereStatus(tasks, "pending") = {} /\ syncPendingAppointments(c, TRUE)) =>
                  /\ pc'[c] = "idle"
                  /\ CalledIn(c)' = {}
                  /\ UNCHANGED <<tasks, appointments, book, response>>]_vars

\* a cycle selected BATCH_SIZE of the Backlog pending tasks and has called
\* IntakeQ for every one of them, the task left out not being touched
C23_Witness ==
    \E c \in Cycles :
        /\ Cardinality(history.log[c].selected) = BATCH_SIZE
        /\ CalledIn(c) = history.log[c].selected
        /\ \E i \in 1..Len(tasks) :
              /\ i \notin history.log[c].selected
              /\ Status(i) = "pending"
              /\ tasks[i].retryCount = 0

\* C24: a cycle that finds at most BATCH_SIZE pending tasks selects all of
\* them, and when the cycle returns a createAppointment call has been made
\* for every task it selected (so a pending task is attempted in every cycle).
C24_EveryPendingTaskAttempted ==
    [][\A c \in Cycles :
          /\ (BatchSelected(c) /\ PendingCount(tasks) <= BATCH_SIZE) =>
                history'.log[c].selected = whereStatus(tasks, "pending")
          /\ CycleEnds(c) => CalledIn(c) = history.log[c].selected]_vars

\* C25: with a fair worker and a working store, every pending task eventually
\* leaves pending (synced or failed), also while more than BATCH_SIZE tasks
\* are pending: no task is pending from some moment on forever.
C25_NoStarvation ==
    \A i \in 1..Backlog :
        []<>(i <= Len(tasks) => Status(i) # "pending")

\* C31: the write that ends a worker attempt on task T leaves every other
\* task row as it was; a successful attempt changes only T's syncStatus and
\* syncedAt; a failed attempt changes only T's retryCount, lastSyncAttempt
\* and errorMessage, and syncStatus only when the count reaches maxRetries,
\* and T's syncedAt is null after it.
C31_AttemptFrame ==
    [][\A c \in Cycles :
          OutcomeWritten(c) =>
             LET T == Current(c).id
             IN /\ Len(tasks') = Len(tasks)
                /\ \A i \in 1..Len(tasks) : i # T => tasks'[i] = tasks[i]
                /\ pc[c] = "mark" =>
                      tasks'[T] = [tasks[T] EXCEPT !.syncStatus = tasks'[T].syncStatus,
                                                   !.syncedAt = tasks'[T].syncedAt]
                /\ pc[c] = "catch" =>
                      /\ tasks'[T] = [tasks[T] EXCEPT
                                        !.retryCount = tasks'[T].retryCount,
                                        !.lastSyncAttempt = tasks'[T].lastSyncAttempt,
                                        !.errorMessage = tasks'[T].errorMessage,
                                        !.syncStatus = tasks'[T].syncStatus]
                      /\ tasks'[T].syncStatus # tasks[T].syncStatus =>
                            tasks'[T].retryCount >= maxRetries
                      /\ tasks'[T].syncedAt = NULL_TIME]_vars

\* C32 as stated: a getCacheStats result counts no task twice, so its total
\* never exceeds the number of rows in the table when the call returns (rows
\* are never deleted), also when rows change state between the three selects.
C32_StatsCountEachTaskOnce ==
    stats.pc = "done" =>
        /\ stats.result.total <= Len(tasks)
        /\ stats.result.pending + stats.result.synced + stats.result.failed <= Len(tasks)

\* C32 amended: each count is the number of rows in that state when its own
\* select ran (pending first, then synced, then failed), counts already taken
\* are kept while the call goes on, total is the sum of the three, and no
\* single count exceeds the number of rows.
C32_CountsPerQuery ==
    /\ [](stats.pc = "done" =>
            /\ stats.result.total = stats.result.pending + stats.result.synced
                                    + stats.result.failed
            /\ stats.result.pending <= Len(tasks)
            /\ stats.result.synced <= Len(tasks)
            /\ stats.result.failed <= Len(tasks))
    /\ [][/\ (stats.pc = "idle" /\ stats'.pc = "q2") =>
                stats'.pending = Cardinality(whereStatus(tasks, "pending"))
          /\ (stats.pc = "q2" /\ stats'.pc \in {"q2", "q3"}) =>
                stats'.pending = stats.pending
          /\ (stats.pc = "q2" /\ stats'.pc = "q3") =>
                stats'.synced = Cardinality(whereStatus(tasks, "synced"))
          /\ (stats.pc = "q3" /\ stats'.pc = "q3") =>
                stats'.pending = stats.pending /\ stats'.synced = stats.synced
          /\ (stats.pc = "q3" /\ stats'.pc = "done") =>
                /\ stats'.result.pending = stats.pending
                /\ stats'.result.synced = stats.synced
                /\ stats'.result.failed = Cardinality(whereStatus(tasks, "failed"))
          /\ (stats.pc = "done" /\ stats'.pc = "done") =>
                stats'.result = stats.result]_vars

\* a call has returned a total above the number of rows: a row was pending
\* at the first select and synced or failed at a later one
C32_Witness ==
    /\ stats.pc = "done" /\ ~stats.quiet
    /\ stats.result.total > Len(tasks)
    /\ stats.result.pending >= 1

\* C33: two cycles in progress never work on the same task: their current
\* entries differ, so no task has two createAppointment calls in flight, also
\* when the timer has fired a cycle before the previous one returned.
C33_OneCyclePerTask ==
    \A c, d \in Cycles :
        (c # d /\ pc[c] # "idle" /\ pc[d] # "idle") =>
            /\ Current(c).id # Current(d).id
            /\ (pc[c] = "call" /\ pc[d] = "call") =>
                  Current(c).appointmentId # Current(d).appointmentId

\* the ids of the entries cycle c has not finished yet
BatchIds(c) == {batch[c][k].id : k \in 1..Len(batch[c])}

\* this step enqueues row i or puts the failed row i back to pending
Admitted(i) ==
    \/ i > Len(tasks) /\ i <= Len(tasks')
    \/ i <= Len(tasks) /\ Status(i) = "failed" /\ tasks'[i].syncStatus = "pending"

\* C34: a task enqueued, or put back to pending by retryFailedSyncs, while a
\* cycle is in progress is not among the entries that cycle still has to
\* attempt, and it is pending with retryCount 0 after that step.
C34_AdmittedAfterSelectionWaits ==
    [][\A i \in 1..Len(tasks') :
          Admitted(i) =>
             /\ tasks'[i].syncStatus = "pending" /\ tasks'[i].retryCount = 0
             /\ \A c \in Cycles : pc[c] # "idle" => i \notin BatchIds(c)']_vars

\* the appointments IntakeQ holds for the local appointment a
RemoteOf(a) == {history.intakeq[k] : k \in {j \in 1..Len(history.intakeq) :
                                               history.intakeq[j].appointmentId = a}}

\* IntakeQ's appointment r says what the local row says
Agrees(r, row) ==
    /\ NewDate(r.DateTime) = row.dateTime
    /\ (row.status = "cancelled") <=> (r.Status = "Cancelled")

\* C35: at the moment a task is marked synced, IntakeQ holds an appointment
\* for its local appointment and every such appointment has the date-time
\* the local row has now and is cancelled if the local row is: a reschedule
\* or cancellation made before the sync has reached IntakeQ.
C35_DownstreamAgreesWithLocal ==
    [][\A c \in Cycles :
          (pc[c] = "mark" /\ OutcomeWritten(c)) =>
             LET a == Current(c).appointmentId
             IN /\ RemoteOf(a) # {}
                /\ \A r \in RemoteOf(a) : Agrees(r, appointments[a])]_vars

\* the identifier IntakeQ assigned in the create call made for task row
AssignedId(row) ==
    IntakeQAppointment(JSONparse(row.payload), row.appointmentId).Id

\* C36: the appointment row of every synced task carries the Id of the
\* appointment IntakeQ returned for it, and the back-reference update of an
\* attempt changes no appointment row other than the entry's own.
C36_BackReferenceRecorded ==
    /\ [](\A i \in 1..Len(tasks) :
            Status(i) = "synced" =>
               appointments[tasks[i].appointmentId].intakeqId = AssignedId(tasks[i]))
    /\ [][\A c \in Cycles :
            (pc[c] = "backref" /\ pc'[c] # "backref") =>
               \A a \in 1..Len(appointments) :
                  a # Current(c).appointmentId => appointments'[a] = appointments[a]]_vars

\* C37: whatever interval is configured, two consecutive starts of the sync
\* callback are exactly that many seconds apart.
C37_FixedPeriod ==
    timer.gap # 0 => timer.gap = timer.interval

====
